---- MODULE Spec2Model ----
(***************************************************************************)
(* State-machine model of the TeamMemberSelector component                 *)
(* (src/src/components/showcase/team-member-selector/TeamMemberSelector.tsx)*)
(*                                                                         *)
(* The component is controlled: the selection is the selectedIds prop and  *)
(* every change goes through the onSelectionChange callback, which the     *)
(* parent stores and passes back (the stories' useState pattern).          *)
(* Text is a tuple of one-character strings, so that toLowerCase() and     *)
(* includes() are computed and not assumed.  An absent optional text is    *)
(* the empty tuple, an absent department the empty string, an absent       *)
(* maxSelected the number 0 (all of them falsy in the source as well).     *)
(***************************************************************************)
EXTENDS Integers, Sequences, FiniteSets, TLC

\* --------------------------------------------------------------- bounds
\* Number of roster entries taken from AllMembers.
NumMembers == 3
\* maxSelected ranges over 0..MaxCap (0: no cap configured).
MaxCap == 2
\* Deferred collapse / refocus callbacks that may be outstanding at once.
MaxTimers == 1

\* ------------------------------------------------------------ constants
POPOVER_CLOSE_DELAY_MS == 0
FOCUS_RESTORATION_DELAY_MS == 10

\* ----------------------------------------------------------------- text
toLowerCaseChar(c) ==
  CASE c = "A" -> "a" [] c = "B" -> "b" [] c = "C" -> "c" [] c = "D" -> "d"
    [] c = "E" -> "e" [] c = "M" -> "m" [] c = "U" -> "u" [] c = "S" -> "s"
    [] OTHER -> c

toLowerCase(s) == [i \in 1..Len(s) |-> toLowerCaseChar(s[i])]

\* String.prototype.includes: needle occurs as a contiguous substring.
includes(hay, needle) ==
  \E k \in 0..(Len(hay) - Len(needle)) :
     \A j \in 1..Len(needle) : hay[k + j] = needle[j]

\* Array.prototype.includes on a list of ids or of texts.
arrayIncludes(arr, x) == \E i \in 1..Len(arr) : arr[i] = x

RECURSIVE filterSeq(_, _)
\* Array.prototype.filter with the predicate given as the set of kept values.
filterSeq(arr, keep) ==
  IF arr = <<>> THEN <<>>
  ELSE IF Head(arr) \in keep THEN <<Head(arr)>> \o filterSeq(Tail(arr), keep)
       ELSE filterSeq(Tail(arr), keep)

\* --------------------------------------------------------------- inputs
Manager == <<"M", "g", "r">>
UiDesigner == <<"U", "i">>
Dev == <<"D", "e", "v">>

\* The roster the parent supplies: TeamMember records.
AllMembers ==
  << [_id |-> 1, fullName |-> <<"A", "n", "a">>, primaryEmail |-> <<"a", "@", "x">>,
      role |-> Manager, orgTitle |-> <<"S", "r">>, orgDepartment |-> "Design",
      directReports |-> <<2, 3>>, reportsTo |-> 0],
     [_id |-> 2, fullName |-> <<"B", "o">>, primaryEmail |-> <<"b", "@", "x">>,
      role |-> Dev, orgTitle |-> <<>>, orgDepartment |-> "Engineering",
      directReports |-> <<>>, reportsTo |-> 1],
     [_id |-> 3, fullName |-> <<"C", "y", "d">>, primaryEmail |-> <<"c", "@", "x">>,
      role |-> UiDesigner, orgTitle |-> <<"E", "d">>, orgDepartment |-> "Design",
      directReports |-> <<>>, reportsTo |-> 1],
     [_id |-> 4, fullName |-> <<"D", "e", "e">>, primaryEmail |-> <<"d", "@", "x">>,
      role |-> Manager, orgTitle |-> <<>>, orgDepartment |-> "Engineering",
      directReports |-> <<>>, reportsTo |-> 0],
     [_id |-> 5, fullName |-> <<"E", "l">>, primaryEmail |-> <<"e", "@", "x">>,
      role |-> <<>>, orgTitle |-> <<>>, orgDepartment |-> "",
      directReports |-> <<>>, reportsTo |-> 0] >>

teamMembers == SubSeq(AllMembers, 1, NumMembers)

Ids == {teamMembers[i]._id : i \in 1..Len(teamMembers)}

mockRoles == <<Manager, UiDesigner, Dev>>

mockDepartments == <<"Design", "Engineering">>

\* Search texts the user types: none, one matching some rows, one matching none.
SearchTerms == {<<>>, <<"D">>, <<"q">>}

\* Values the parent passes as defaultDepartment; "Legal" is never an option.
DefaultDepartments == {"", "Design", "Engineering", "Legal"}

\* Props fixed for the whole model (the configuration under verification).
contentOnly == FALSE
hideSelectedBadges == FALSE
enableKeyboardNavigation == TRUE
showNavigationArrows == TRUE
allowRoleFilter == TRUE

\* Ordered lists of pairwise distinct ids, the values of the selectedIds prop.
DistinctSeqs ==
  UNION {{s \in [1..n -> Ids] : \A i, j \in 1..n : i # j => s[i] # s[j]} :
         n \in 0..NumMembers}

\* ---------------------------------------------------------------- state
VARIABLES
  \* props
  variant, maxSelected, disabled, allowClear, selectedIds,
  defaultDepartment, departments, allowDepartmentFilter, triggerMode, roles,
  onFiltersChange,
  \* useState
  open, searchTerm, departmentFilter, roleFilter, userHasClosed,
  \* useRef
  hasUserSetDepartmentFilterRef, lastAppliedDefaultDepartmentRef,
  lastEmittedFiltersRef, onFiltersChangeRef,
  \* scheduler: dependency values seen by the last effect pass, pending
  \* setTimeout callbacks, where the input focus is, whether the component
  \* is still mounted
  rendered, timers, focus, mounted,
  \* observation: the last operation and what it did, the effects that ran
  \* since, the filters-changed calls the parent received
  last, navRun, fx, mountedWith, calls

props == <<variant, maxSelected, disabled, allowClear, selectedIds,
           defaultDepartment, departments, allowDepartmentFilter, triggerMode, roles,
           onFiltersChange>>
filterState == <<searchTerm, departmentFilter, roleFilter>>
popoverState == <<open, userHasClosed, timers, focus>>
refs == <<hasUserSetDepartmentFilterRef, lastAppliedDefaultDepartmentRef,
          lastEmittedFiltersRef, onFiltersChangeRef>>
selectorState == <<props, filterState, popoverState, refs, rendered, mounted,
                   last, navRun, fx, mountedWith, calls>>

\* Inputs and results of the pure derivations that are checked on their own:
\* the sort stage (roster, sortMode, currentUserId and the run of sorts made).
VARIABLES roster, sortMode, currentUserId, sortRun, filterRun, labelRun, wizard

sortState == <<roster, sortMode, currentUserId, sortRun>>
fnState == <<sortState, filterRun, labelRun, wizard>>

vars == <<selectorState, fnState>>

\* ----------------------------------------------------------- sort stage
\* Collation order of the letters that occur in names.
Alphabet == <<"a", "b", "c", "d", "e", "l", "n", "o", "y">>

charRank(c) ==
  IF \E i \in 1..Len(Alphabet) : Alphabet[i] = toLowerCaseChar(c)
  THEN CHOOSE i \in 1..Len(Alphabet) : Alphabet[i] = toLowerCaseChar(c)
  ELSE 0

RECURSIVE localeCompare(_, _)
\* String.prototype.localeCompare: negative, zero or positive.  Letters are
\* compared without regard to case first; no two names of the model differ
\* in case only.
localeCompare(a, b) ==
  IF a = <<>> /\ b = <<>> THEN 0
  ELSE IF a = <<>> THEN -1
  ELSE IF b = <<>> THEN 1
  ELSE IF charRank(Head(a)) < charRank(Head(b)) THEN -1
  ELSE IF charRank(Head(a)) > charRank(Head(b)) THEN 1
  ELSE localeCompare(Tail(a), Tail(b))

\* Array.prototype.find by _id: the first member with that id, or the list of
\* none; ids are strings, so an undefined id (0) finds nobody.
findMember(members, id) ==
  IF id # 0 /\ \E i \in 1..Len(members) : members[i]._id = id
  THEN <<members[CHOOSE i \in 1..Len(members) :
                   members[i]._id = id /\ \A j \in 1..(i - 1) : members[j]._id # id]>>
  ELSE <<>>

\* What the management comparator closes over.
managementContext(members, me) ==
  LET currentUser == findMember(members, me)[1]
      myManager == findMember(members, currentUser.reportsTo)
  IN [mode |-> "management", me |-> me,
      myDirectReportIds |-> {currentUser.directReports[i] :
                               i \in 1..Len(currentUser.directReports)},
      siblingIds |-> IF myManager = <<>> THEN {}
                     ELSE {myManager[1].directReports[i] :
                             i \in 1..Len(myManager[1].directReports)}]

AlphabeticalContext ==
  [mode |-> "alphabetical", me |-> 0, myDirectReportIds |-> {}, siblingIds |-> {}]

\* The comparator handed to Array.prototype.sort, by mode.
compareMembers(a, b, ctx) ==
  IF ctx.mode = "alphabetical" THEN localeCompare(a.fullName, b.fullName)
  ELSE IF a._id = ctx.me THEN -1
  ELSE IF b._id = ctx.me THEN 1
  ELSE LET aIsReport == a._id \in ctx.myDirectReportIds
           bIsReport == b._id \in ctx.myDirectReportIds
           aIsSibling == a._id \in ctx.siblingIds
           bIsSibling == b._id \in ctx.siblingIds
       IN IF aIsReport /\ ~bIsReport THEN -1
          ELSE IF ~aIsReport /\ bIsReport THEN 1
          ELSE IF aIsSibling /\ ~bIsSibling THEN -1
          ELSE IF ~aIsSibling /\ bIsSibling THEN 1
          ELSE localeCompare(a.fullName, b.fullName)

RECURSIVE insertSorted_BeforeEquals(_, _, _)
\* Variant: a member is placed before the members it compares equal to.
insertSorted_BeforeEquals(x, arr, ctx) ==
  IF arr = <<>> THEN <<x>>
  ELSE IF compareMembers(x, Head(arr), ctx) <= 0 THEN <<x>> \o arr
  ELSE <<Head(arr)>> \o insertSorted_BeforeEquals(x, Tail(arr), ctx)

RECURSIVE insertSorted(_, _, _)
\* Array.prototype.sort is stable: a member keeps its place after the earlier
\* members it compares equal to.
insertSorted(x, arr, ctx) ==
  IF arr = <<>> THEN <<x>>
  ELSE IF compareMembers(x, Head(arr), ctx) < 0 THEN <<x>> \o arr
  ELSE <<Head(arr)>> \o insertSorted(x, Tail(arr), ctx)

RECURSIVE sortFrom(_, _, _)
\* [...members].sort(comparator): a new list, the input is left as it was.
sortFrom(done, rest, ctx) ==
  IF rest = <<>> THEN done
  ELSE sortFrom(insertSorted(Head(rest), done, ctx), Tail(rest), ctx)

\* Variant: a current user who is not in the roster sorts it alphabetically.
sortMembers_AlphabeticalFallback(members, mode, me) ==
  IF mode = "none" THEN members
  ELSE IF mode = "alphabetical" THEN sortFrom(<<>>, members, AlphabeticalContext)
  ELSE IF mode = "management" /\ me # 0
    THEN IF findMember(members, me) = <<>>
         THEN sortFrom(<<>>, members, AlphabeticalContext)
         ELSE sortFrom(<<>>, members, managementContext(members, me))
  ELSE members

\* The body of the sortedMembers memo, for a roster, a mode and a current user.
sortMembers(members, mode, me) ==
  IF mode = "none" THEN members
  ELSE IF mode = "alphabetical" THEN sortFrom(<<>>, members, AlphabeticalContext)
  ELSE IF mode = "management" /\ me # 0
    THEN IF findMember(members, me) = <<>> THEN members
         ELSE sortFrom(<<>>, members, managementContext(members, me))
  ELSE members

\* ------------------------------------------------------ derived (useMemo)
\* The selector specifications keep the prop defaults: sortMode "none" and no
\* currentUserId.
sortedMembers == sortMembers(teamMembers, "none", 0)

matchesSearch(member, term) ==
  LET searchLower == toLowerCase(term) IN
  \/ term = <<>>
  \/ includes(toLowerCase(member.fullName), searchLower)
  \/ includes(toLowerCase(member.primaryEmail), searchLower)
  \/ (member.role # <<>> /\ includes(toLowerCase(member.role), searchLower))
  \/ (member.orgTitle # <<>> /\ includes(toLowerCase(member.orgTitle), searchLower))

matchesDepartment(member, department) ==
  department = "" \/ member.orgDepartment = department

matchesRole(member, role) == role = <<>> \/ member.role = role

\* Variant: a member without a role passes no role criterion, the empty one
\* included.
filterMembers_RoleRequired(members, term, department, role) ==
  SelectSeq(members, LAMBDA member : /\ matchesSearch(member, term)
                                     /\ matchesDepartment(member, department)
                                     /\ matchesRole(member, role)
                                     /\ member.role # <<>>)

\* The body of the filteredMembers memo for a sorted list of members and the
\* three criteria.
filterMembers(members, term, department, role) ==
  SelectSeq(members, LAMBDA member : /\ matchesSearch(member, term)
                                     /\ matchesDepartment(member, department)
                                     /\ matchesRole(member, role))

idsOf(members) == [i \in 1..Len(members) |-> members[i]._id]

\* useMemo: the view of the selector's roster, one value for each value of
\* the dependencies searchTerm, departmentFilter and roleFilter.
filteredMembersMemo ==
  [term \in SearchTerms,
   department \in DefaultDepartments \cup {mockDepartments[i] : i \in 1..Len(mockDepartments)},
   role \in {<<>>} \cup {mockRoles[i] : i \in 1..Len(mockRoles)}
     |-> idsOf(filterMembers(sortedMembers, term, department, role))]

filteredMembers == filteredMembersMemo[searchTerm, departmentFilter, roleFilter]

availableRolesFor(dept) ==
  IF dept = "" THEN roles
  ELSE LET rolesInDepartment ==
             {teamMembers[i].role : i \in {j \in 1..Len(teamMembers) :
                 /\ teamMembers[j].orgDepartment = dept
                 /\ teamMembers[j].role # <<>>}}
       IN filterSeq(roles, rolesInDepartment)

availableRoles == availableRolesFor(departmentFilter)

selectedMembers == filterSeq([i \in 1..Len(teamMembers) |-> teamMembers[i]._id],
                             {selectedIds[i] : i \in 1..Len(selectedIds)})

isPopoverOpen == open /\ ~userHasClosed

\* The option list is on screen: always in contentOnly, else inside the popover.
listVisible == contentOnly \/ isPopoverOpen

\* Mutant: at the cap every row is disabled, the selected ones too.
isDisabled_WholeListAtCap(memberId) ==
  \/ disabled
  \/ /\ maxSelected # 0
     /\ Len(selectedIds) >= maxSelected

\* A row of the list is rendered disabled.
isDisabled(memberId) ==
  \/ disabled
  \/ /\ maxSelected # 0
     /\ ~arrayIncludes(selectedIds, memberId)
     /\ Len(selectedIds) >= maxSelected

\* ------------------------------------------------- selection handlers
\* What a handler does, as a value: the list it hands to onSelectionChange
\* (fired), and whether it schedules the deferred collapse and refocus and
\* sets userHasClosed (sched).  Not fired: the selection stays as it is.
NoChange == [sel |-> selectedIds, fired |-> FALSE, sched |-> FALSE]

\* Position (1-based) of the first occurrence of x in arr.
findFirst(arr, x) == CHOOSE i \in 1..Len(arr) :
                       arr[i] = x /\ \A j \in 1..(i - 1) : arr[j] # x

Without(arr, memberId) == filterSeq(arr, {arr[i] : i \in 1..Len(arr)} \ {memberId})

\* Mutant: the cap is not checked.
handleToggleMember_NoCap(memberId) ==
  IF disabled THEN NoChange
  ELSE IF variant = "single"
  THEN IF arrayIncludes(selectedIds, memberId)
       THEN IF ~allowClear THEN NoChange
            ELSE [sel |-> <<>>, fired |-> TRUE, sched |-> TRUE]
       ELSE [sel |-> <<memberId>>, fired |-> TRUE, sched |-> TRUE]
  ELSE [sel |-> IF arrayIncludes(selectedIds, memberId)
                THEN Without(selectedIds, memberId)
                ELSE Append(selectedIds, memberId),
        fired |-> TRUE, sched |-> FALSE]

\* Mutant: at the cap the oldest id is dropped to make room for the new one.
handleToggleMember_Truncate(memberId) ==
  IF disabled THEN NoChange
  ELSE IF variant = "single"
  THEN IF arrayIncludes(selectedIds, memberId)
       THEN IF ~allowClear THEN NoChange
            ELSE [sel |-> <<>>, fired |-> TRUE, sched |-> TRUE]
       ELSE [sel |-> <<memberId>>, fired |-> TRUE, sched |-> TRUE]
  ELSE LET newSelection == IF arrayIncludes(selectedIds, memberId)
                           THEN Without(selectedIds, memberId)
                           ELSE Append(selectedIds, memberId)
       IN IF maxSelected # 0 /\ Len(newSelection) > maxSelected
          THEN [sel |-> Tail(newSelection), fired |-> TRUE, sched |-> FALSE]
          ELSE [sel |-> newSelection, fired |-> TRUE, sched |-> FALSE]

\* Mutant: allowClear is not consulted in single mode.
handleToggleMember_AlwaysClears(memberId) ==
  IF disabled THEN NoChange
  ELSE IF variant = "single"
  THEN IF arrayIncludes(selectedIds, memberId)
       THEN [sel |-> <<>>, fired |-> TRUE, sched |-> TRUE]
       ELSE [sel |-> <<memberId>>, fired |-> TRUE, sched |-> TRUE]
  ELSE LET newSelection == IF arrayIncludes(selectedIds, memberId)
                           THEN Without(selectedIds, memberId)
                           ELSE Append(selectedIds, memberId)
       IN IF maxSelected # 0 /\ Len(newSelection) > maxSelected
          THEN NoChange
          ELSE [sel |-> newSelection, fired |-> TRUE, sched |-> FALSE]

handleToggleMember(memberId) ==
  IF disabled THEN NoChange
  ELSE IF variant = "single"
  THEN IF arrayIncludes(selectedIds, memberId)
       THEN IF ~allowClear THEN NoChange
            ELSE [sel |-> <<>>, fired |-> TRUE, sched |-> TRUE]
       ELSE [sel |-> <<memberId>>, fired |-> TRUE, sched |-> TRUE]
  ELSE LET newSelection == IF arrayIncludes(selectedIds, memberId)
                           THEN Without(selectedIds, memberId)
                           ELSE Append(selectedIds, memberId)
       IN IF maxSelected # 0 /\ Len(newSelection) > maxSelected
          THEN NoChange
          ELSE [sel |-> newSelection, fired |-> TRUE, sched |-> FALSE]

\* Mutant: remove drops the id and every id selected after it.
handleRemoveMember_DropsTail(memberId) ==
  IF disabled THEN NoChange
  ELSE [sel |-> IF arrayIncludes(selectedIds, memberId)
                THEN SubSeq(selectedIds, 1, findFirst(selectedIds, memberId) - 1)
                ELSE selectedIds,
        fired |-> TRUE, sched |-> FALSE]

handleRemoveMember(memberId) ==
  IF disabled THEN NoChange
  ELSE [sel |-> Without(selectedIds, memberId), fired |-> TRUE, sched |-> FALSE]

\* Variant: clearing the selection also closes the popover, as the "Remove
\* selection" item does.
clearAll_ClosesPopover ==
  IF disabled THEN NoChange
  ELSE [sel |-> <<>>, fired |-> TRUE, sched |-> TRUE]

clearAll ==
  IF disabled THEN NoChange
  ELSE [sel |-> <<>>, fired |-> TRUE, sched |-> FALSE]

\* onSelect of the "Remove selection" item.
removeSelectionOnSelect ==
  IF disabled THEN NoChange
  ELSE [sel |-> <<>>, fired |-> TRUE, sched |-> TRUE]

\* Array.prototype.findIndex on the view, 0-based, -1 when absent.
findIndex(view, memberId) ==
  IF arrayIncludes(view, memberId)
  THEN (CHOOSE i \in 1..Len(view) :
          view[i] = memberId /\ \A j \in 1..(i - 1) : view[j] # memberId) - 1
  ELSE -1

\* Mutant: the step adds the new id to the selection instead of replacing it.
handleArrowNavigation_Adds(direction) ==
  IF Len(filteredMembers) = 0 \/ variant # "single" THEN NoChange
  ELSE LET currentIndex == IF selectedIds # <<>>
                           THEN findIndex(filteredMembers, selectedIds[1])
                           ELSE -1
           newIndex == IF direction = "down"
                       THEN IF currentIndex >= Len(filteredMembers) - 1
                            THEN 0 ELSE currentIndex + 1
                       ELSE IF currentIndex <= 0
                            THEN Len(filteredMembers) - 1 ELSE currentIndex - 1
       IN [sel |-> Append(selectedIds, filteredMembers[newIndex + 1]),
           fired |-> TRUE, sched |-> FALSE]

\* Mutant: a forward step stops at the last row instead of wrapping to the first.
handleArrowNavigation_NoWrap(direction) ==
  IF Len(filteredMembers) = 0 \/ variant # "single" THEN NoChange
  ELSE LET currentIndex == IF selectedIds # <<>>
                           THEN findIndex(filteredMembers, selectedIds[1])
                           ELSE -1
           newIndex == IF direction = "down"
                       THEN IF currentIndex >= Len(filteredMembers) - 1
                            THEN Len(filteredMembers) - 1 ELSE currentIndex + 1
                       ELSE IF currentIndex <= 0
                            THEN Len(filteredMembers) - 1 ELSE currentIndex - 1
       IN [sel |-> <<filteredMembers[newIndex + 1]>>, fired |-> TRUE, sched |-> FALSE]

\* Mutant: a backward step with nothing selected goes to the first row.
handleArrowNavigation_UpFromNone(direction) ==
  IF Len(filteredMembers) = 0 \/ variant # "single" THEN NoChange
  ELSE LET currentIndex == IF selectedIds # <<>>
                           THEN findIndex(filteredMembers, selectedIds[1])
                           ELSE -1
           newIndex == IF direction = "down"
                       THEN IF currentIndex >= Len(filteredMembers) - 1
                            THEN 0 ELSE currentIndex + 1
                       ELSE IF currentIndex < 0 THEN 0
                            ELSE IF currentIndex = 0
                                 THEN Len(filteredMembers) - 1 ELSE currentIndex - 1
       IN [sel |-> <<filteredMembers[newIndex + 1]>>, fired |-> TRUE, sched |-> FALSE]

handleArrowNavigation(direction) ==
  IF Len(filteredMembers) = 0 \/ variant # "single" THEN NoChange
  ELSE LET currentIndex == IF selectedIds # <<>>
                           THEN findIndex(filteredMembers, selectedIds[1])
                           ELSE -1
           newIndex == IF direction = "down"
                       THEN IF currentIndex >= Len(filteredMembers) - 1
                            THEN 0 ELSE currentIndex + 1
                       ELSE IF currentIndex <= 0
                            THEN Len(filteredMembers) - 1 ELSE currentIndex - 1
       IN [sel |-> <<filteredMembers[newIndex + 1]>>, fired |-> TRUE, sched |-> FALSE]

\* Mutant: the key handler does not look at disabled.
triggerOnKeyDown_IgnoresDisabled(direction) ==
  IF ~enableKeyboardNavigation THEN NoChange
  ELSE handleArrowNavigation(direction)

\* onKeyDown of the trigger button (an arrow key).
triggerOnKeyDown(direction) ==
  IF disabled \/ ~enableKeyboardNavigation THEN NoChange
  ELSE handleArrowNavigation(direction)

\* handleCommandKeyDown for the space bar on the highlighted row.
handleCommandKeyDown(itemId) ==
  IF variant = "multiple" THEN handleToggleMember(itemId) ELSE NoChange

showArrows == showNavigationArrows /\ variant = "single" /\ triggerMode # "icon"

\* ------------------------------------------------------ deferred callbacks
\* timers is the list of outstanding setTimeout batches, oldest first; a
\* batch is the set of callbacks one handler run scheduled that have not
\* fired yet, each with its delay and its position in the handler (ord).

\* Mutant: the collapse is given the longer delay and the refocus the shorter.
scheduleDeferred_SwappedDelays ==
  {[kind |-> "close", delay |-> FOCUS_RESTORATION_DELAY_MS, ord |-> 1],
   [kind |-> "focus", delay |-> POPOVER_CLOSE_DELAY_MS, ord |-> 2]}

\* The two setTimeout calls of a single-mode selection.
scheduleDeferred ==
  {[kind |-> "close", delay |-> POPOVER_CLOSE_DELAY_MS, ord |-> 1],
   [kind |-> "focus", delay |-> FOCUS_RESTORATION_DELAY_MS, ord |-> 2]}

\* The event loop may run callback t of batch b next: nothing outstanding is
\* due before it.  Within a batch the shorter delay is due first (equal
\* delays: the earlier call); a callback of an older batch with a delay not
\* longer than t's is due first; the order of other pairs depends on how
\* much time passed between the two handler runs.
mayFire(b, t) ==
  /\ \A u \in timers[b] \ {t} :
        ~(u.delay < t.delay \/ (u.delay = t.delay /\ u.ord < t.ord))
  /\ \A a \in 1..(b - 1) : \A u \in timers[a] : u.delay > t.delay

RECURSIVE dropEmpty(_)
dropEmpty(batches) ==
  IF batches = <<>> THEN <<>>
  ELSE IF Head(batches) = {} THEN dropEmpty(Tail(batches))
       ELSE <<Head(batches)>> \o dropEmpty(Tail(batches))

\* The list of batches once callback t of batch b has run.
afterFiring(b, t) == dropEmpty([timers EXCEPT ![b] = @ \ {t}])

\* triggerRef.current: the default trigger button while it is mounted; the
\* icon trigger carries no ref, and contentOnly renders no trigger.
triggerRefCurrent ==
  IF mounted /\ ~contentOnly /\ triggerMode # "icon" THEN "trigger" ELSE "null"

\* ------------------------------------------------------------- actions
\* The parent stores what onSelectionChange hands it and passes it back as
\* selectedIds; setTimeout and setUserHasClosed of the single-mode branch.
Commit(op, id, dir, out) ==
  /\ out.sched => Len(timers) < MaxTimers
  /\ selectedIds' = out.sel
  /\ userHasClosed' = (out.sched \/ userHasClosed)
  /\ timers' = IF out.sched THEN Append(timers, scheduleDeferred) ELSE timers
  /\ last' = [op |-> op, id |-> id, dir |-> dir, pre |-> selectedIds,
              fired |-> out.fired, sched |-> out.sched, dis |-> disabled]
  /\ UNCHANGED <<variant, maxSelected, disabled, allowClear, defaultDepartment,
                 departments, allowDepartmentFilter, triggerMode, roles,
                 onFiltersChange, open, focus, filterState, refs, rendered,
                 fx, mountedWith, mounted, calls, fnState>>

\* Consecutive forward steps that acted, and the selection they started from.
CountStep(dir, out) ==
  navRun' = IF dir = "down" /\ out.fired
            THEN IF navRun.n < Len(filteredMembers)
                 THEN [navRun EXCEPT !.n = @ + 1]
                 ELSE [start |-> selectedIds, n |-> 1]
            ELSE [start |-> out.sel, n |-> 0]

RowClick(id) ==
  /\ listVisible
  /\ arrayIncludes(filteredMembers, id)
  /\ ~isDisabled(id)
  /\ Commit("toggle", id, "", handleToggleMember(id))
  /\ navRun' = [start |-> selectedIds', n |-> 0]

ToggleKey(id) ==
  /\ listVisible
  /\ arrayIncludes(filteredMembers, id)
  /\ Commit("toggleKey", id, "", handleCommandKeyDown(id))
  /\ navRun' = [start |-> selectedIds', n |-> 0]

RemoveBadge(id) ==
  /\ variant = "multiple"
  /\ arrayIncludes(selectedMembers, id)
  /\ ~hideSelectedBadges
  /\ ~disabled
  /\ Commit("remove", id, "", handleRemoveMember(id))
  /\ navRun' = [start |-> selectedIds', n |-> 0]

ClearAllClick ==
  /\ listVisible
  /\ variant = "multiple"
  /\ Len(teamMembers) > 0
  /\ ~(disabled \/ Len(selectedMembers) = 0)
  /\ Commit("clearAll", 0, "", clearAll)
  /\ navRun' = [start |-> selectedIds', n |-> 0]

RemoveSelectionClick ==
  /\ listVisible
  /\ allowClear /\ variant = "single" /\ Len(selectedIds) > 0
  /\ ~disabled
  /\ Commit("removeSelection", 0, "", removeSelectionOnSelect)
  /\ navRun' = [start |-> selectedIds', n |-> 0]

ArrowKey(dir) ==
  /\ ~contentOnly
  /\ Commit("arrowKey", 0, dir, triggerOnKeyDown(dir))
  /\ CountStep(dir, triggerOnKeyDown(dir))

ArrowButton(dir) ==
  /\ ~contentOnly
  /\ showArrows
  /\ ~(disabled \/ Len(filteredMembers) = 0)
  /\ Commit("arrowButton", 0, dir, handleArrowNavigation(dir))
  /\ CountStep(dir, handleArrowNavigation(dir))

\* Click on the trigger: onClick clears userHasClosed, the popover toggles
\* through onOpenChange(!isPopoverOpen).
TriggerClick ==
  /\ ~contentOnly
  /\ ~disabled
  /\ open' = ~isPopoverOpen
  /\ userHasClosed' = FALSE
  /\ focus' = IF ~isPopoverOpen THEN "list" ELSE "trigger"
  /\ UNCHANGED <<props, filterState, refs, rendered, timers, last, navRun, fx,
                 mountedWith, mounted, calls, fnState>>

\* Escape key or outside interaction: onOpenChange(false).
Dismiss ==
  /\ isPopoverOpen
  /\ open' = FALSE
  /\ focus' = "trigger"
  /\ UNCHANGED <<props, filterState, refs, rendered, userHasClosed, timers,
                 last, navRun, fx, mountedWith, mounted, calls, fnState>>

\* setTimeout(() => setOpen(false), POPOVER_CLOSE_DELAY_MS) fires.
\* A state update of an unmounted component is dropped.
CloseTimerFires ==
  /\ \E b \in 1..Len(timers) : \E t \in timers[b] :
        /\ t.kind = "close"
        /\ mayFire(b, t)
        /\ timers' = afterFiring(b, t)
  /\ open' = IF mounted THEN FALSE ELSE open
  /\ UNCHANGED <<props, filterState, refs, rendered, userHasClosed, focus,
                 last, navRun, fx, mountedWith, mounted, calls, fnState>>

\* setTimeout(() => triggerRef.current?.focus(), FOCUS_RESTORATION_DELAY_MS)
\* fires.
FocusTimerFires ==
  /\ \E b \in 1..Len(timers) : \E t \in timers[b] :
        /\ t.kind = "focus"
        /\ mayFire(b, t)
        /\ timers' = afterFiring(b, t)
  /\ focus' = IF triggerRefCurrent = "null" THEN focus ELSE "trigger"
  /\ UNCHANGED <<props, filterState, refs, rendered, open, userHasClosed,
                 last, navRun, fx, mountedWith, mounted, calls, fnState>>

\* Mutant: a prop update resets the userHasClosed guard.
SetDisabled_ResetsGuard ==
  /\ disabled' = ~disabled
  /\ userHasClosed' = FALSE
  /\ UNCHANGED <<variant, maxSelected, allowClear, selectedIds, defaultDepartment,
                 departments, allowDepartmentFilter, triggerMode, roles,
                 onFiltersChange, filterState, open, timers, focus,
                 refs, rendered, last, navRun, fx, mountedWith, mounted, calls, fnState>>

\* The parent re-renders with the disabled prop flipped.
SetDisabled ==
  /\ disabled' = ~disabled
  /\ UNCHANGED <<variant, maxSelected, allowClear, selectedIds, defaultDepartment,
                 departments, allowDepartmentFilter, triggerMode, roles,
                 onFiltersChange, filterState, popoverState,
                 refs, rendered, last, navRun, fx, mountedWith, mounted, calls, fnState>>

\* ------------------------------------------------ selection specification
\* The derivations checked on their own are given no roster and are not run.
NoSortRun == [given |-> <<>>, first |-> <<>>, out |-> <<>>, n |-> 0]

NoFilterRun == [order |-> <<>>, staged |-> <<>>, view |-> <<>>, n |-> 0]

\* The budget wizard as its useState calls leave it; did is the handler that
\* ran last and reported the value it handed to onSelect (0: none).
NewWizard == [step |-> 1, projectType |-> "", selectedRoles |-> <<>>,
              timeline |-> "", complexityFactors |-> {},
              did |-> "mount", reported |-> 0]

\* No member is selected: the trigger shows no name.
NoLabelRun == [name |-> [givenName |-> <<>>, familyName |-> <<>>, fullName |-> <<>>],
               compactName |-> "undefined", matches |-> TRUE,
               hydrated |-> FALSE, label |-> <<>>]

FnIdle ==
  /\ roster = <<>>
  /\ sortMode = "none"
  /\ currentUserId = 0
  /\ sortRun = NoSortRun
  /\ filterRun = NoFilterRun
  /\ labelRun = NoLabelRun
  /\ wizard = NewWizard

NoFx == [defaultApplied |-> FALSE, departmentReset |-> FALSE,
         emitted |-> FALSE, roleCleared |-> FALSE, passes |-> 0]

DepsOf(dd, df, adf, ds, rf, st, cb) ==
  [mounted |-> TRUE, defaultDepartment |-> dd, departmentFilter |-> df,
   allowDepartmentFilter |-> adf, departments |-> ds, roleFilter |-> rf,
   searchTerm |-> st, onFiltersChange |-> cb, roles |-> mockRoles]

\* No filters-changed call was made yet.
NoCalls == [last |-> [set |-> FALSE, department |-> "", role |-> <<>>,
                      search |-> <<>>],
            to |-> 0, repeated |-> FALSE]

\* The selector mounted and settled, the user having typed a search text.
Init ==
  /\ variant \in {"single", "multiple"}
  /\ maxSelected \in 0..MaxCap
  /\ disabled \in BOOLEAN
  /\ allowClear \in BOOLEAN
  /\ selectedIds \in DistinctSeqs
  /\ defaultDepartment = ""
  /\ departments = mockDepartments
  /\ allowDepartmentFilter = TRUE
  /\ triggerMode = "default"
  /\ roles = mockRoles
  /\ onFiltersChange = 1
  /\ open = FALSE
  /\ searchTerm \in SearchTerms
  /\ departmentFilter = ""
  /\ roleFilter = <<>>
  /\ userHasClosed = FALSE
  /\ hasUserSetDepartmentFilterRef = FALSE
  /\ lastAppliedDefaultDepartmentRef = ""
  /\ lastEmittedFiltersRef = [set |-> TRUE, department |-> "", role |-> <<>>,
                              search |-> searchTerm]
  /\ onFiltersChangeRef = 1
  /\ rendered = DepsOf("", "", TRUE, mockDepartments, <<>>, searchTerm, 1)
  /\ timers = <<>>
  /\ mounted = TRUE
  /\ calls = [NoCalls EXCEPT !.last = lastEmittedFiltersRef, !.to = 1]
  /\ FnIdle
  /\ focus = "elsewhere"
  /\ last = [op |-> "mount", id |-> 0, dir |-> "", pre |-> selectedIds,
             fired |-> FALSE, sched |-> FALSE, dis |-> disabled]
  /\ navRun = [start |-> selectedIds, n |-> 0]
  /\ fx = NoFx
  /\ mountedWith = Len(selectedIds)

Next ==
  \/ \E id \in Ids : RowClick(id)
  \/ \E id \in Ids : ToggleKey(id)
  \/ \E id \in Ids : RemoveBadge(id)
  \/ ClearAllClick
  \/ RemoveSelectionClick
  \/ \E dir \in {"up", "down"} : ArrowKey(dir)
  \/ \E dir \in {"up", "down"} : ArrowButton(dir)
  \/ TriggerClick
  \/ Dismiss
  \/ CloseTimerFires
  \/ FocusTimerFires
  \/ SetDisabled

Spec == Init /\ [][Next]_vars

\* ------------------------------------------------------------- effects
\* The dependency values of the current render.
Deps ==
  [DepsOf(defaultDepartment, departmentFilter, allowDepartmentFilter,
          departments, roleFilter, searchTerm, onFiltersChange)
     EXCEPT !.roles = roles]

\* No state or prop changed since the last effect pass: nothing is pending.
Quiescent == rendered = Deps

\* A dependency differs from the one the last effect pass saw (always on mount).
Changed(dep) == ~rendered.mounted \/ rendered[dep] # Deps[dep]

\* Each effect as a value: whether it sets state (or emits) in this pass.
\* The first effect stores the latest onFiltersChange in its ref.
onFiltersChangeRefEffect == Changed("onFiltersChange")

\* Mutant: a default is applied over an explicit choice of the user.
defaultDepartmentEffect_IgnoresUserChoice ==
  /\ \E dep \in {"defaultDepartment", "departmentFilter",
                 "allowDepartmentFilter", "departments"} : Changed(dep)
  /\ defaultDepartment # ""
  /\ ~(/\ allowDepartmentFilter
       /\ Len(departments) > 0
       /\ ~arrayIncludes(departments, defaultDepartment))
  /\ (departmentFilter = "" \/ departmentFilter = lastAppliedDefaultDepartmentRef)
  /\ departmentFilter # defaultDepartment

\* Variant: a default is applied without looking it up in the options.
defaultDepartmentEffect_SkipsOptionsCheck ==
  /\ \E dep \in {"defaultDepartment", "departmentFilter",
                 "allowDepartmentFilter", "departments"} : Changed(dep)
  /\ defaultDepartment # ""
  /\ ~hasUserSetDepartmentFilterRef
  /\ (departmentFilter = "" \/ departmentFilter = lastAppliedDefaultDepartmentRef)
  /\ departmentFilter # defaultDepartment

defaultDepartmentEffect ==
  /\ \E dep \in {"defaultDepartment", "departmentFilter",
                 "allowDepartmentFilter", "departments"} : Changed(dep)
  /\ defaultDepartment # ""
  /\ ~hasUserSetDepartmentFilterRef
  /\ ~(/\ allowDepartmentFilter
       /\ Len(departments) > 0
       /\ ~arrayIncludes(departments, defaultDepartment))
  /\ (departmentFilter = "" \/ departmentFilter = lastAppliedDefaultDepartmentRef)
  /\ departmentFilter # defaultDepartment

departmentValidityEffect ==
  /\ \E dep \in {"allowDepartmentFilter", "departments", "departmentFilter"} :
        Changed(dep)
  /\ allowDepartmentFilter
  /\ departmentFilter # ""
  /\ Len(departments) # 0
  /\ ~arrayIncludes(departments, departmentFilter)

nextFilters == [set |-> TRUE, department |-> departmentFilter,
                role |-> roleFilter, search |-> searchTerm]

\* Mutant: the report runs again when the callback is replaced, and does
\* not compare with what it reported last.
filterReportEffect_OnEveryCallback ==
  \E dep \in {"departmentFilter", "roleFilter", "searchTerm",
               "onFiltersChange"} : Changed(dep)

filterReportEffect ==
  /\ \E dep \in {"departmentFilter", "roleFilter", "searchTerm"} : Changed(dep)
  /\ ~(/\ lastEmittedFiltersRef.set
       /\ lastEmittedFiltersRef.department = nextFilters.department
       /\ lastEmittedFiltersRef.role = nextFilters.role
       /\ lastEmittedFiltersRef.search = nextFilters.search)

\* Mutant: the chosen role is looked up in all roles, not in the available ones.
roleClearEffect_AllRoles ==
  /\ (Changed("departmentFilter") \/ Changed("roleFilter") \/ Changed("roles"))
  /\ roleFilter # <<>>
  /\ ~arrayIncludes(roles, roleFilter)

\* availableRoles is recomputed (a new array) when departmentFilter or roles
\* changes.
roleClearEffect ==
  /\ (Changed("departmentFilter") \/ Changed("roleFilter") \/ Changed("roles"))
  /\ roleFilter # <<>>
  /\ ~arrayIncludes(availableRoles, roleFilter)

\* One commit's effects, in the order they are declared.  State set by an
\* effect is queued: it shows in the next render, which runs the effects
\* again.  Two sets of departmentFilter in one pass: the later one wins.
RunEffects ==
  /\ ~Quiescent
  /\ lastAppliedDefaultDepartmentRef' =
       IF defaultDepartmentEffect THEN defaultDepartment
       ELSE lastAppliedDefaultDepartmentRef
  /\ departmentFilter' =
       IF departmentValidityEffect THEN ""
       ELSE IF defaultDepartmentEffect THEN defaultDepartment
       ELSE departmentFilter
  /\ lastEmittedFiltersRef' =
       IF filterReportEffect THEN nextFilters ELSE lastEmittedFiltersRef
  /\ onFiltersChangeRef' =
       IF onFiltersChangeRefEffect THEN onFiltersChange ELSE onFiltersChangeRef
  /\ calls' = IF filterReportEffect
              THEN [last |-> nextFilters, to |-> onFiltersChangeRef',
                    repeated |-> calls.last = nextFilters]
              ELSE calls
  /\ roleFilter' = IF roleClearEffect THEN <<>> ELSE roleFilter
  /\ rendered' = Deps
  /\ fx' = [defaultApplied |-> fx.defaultApplied \/ defaultDepartmentEffect,
            departmentReset |-> fx.departmentReset \/ departmentValidityEffect,
            emitted |-> fx.emitted \/ filterReportEffect,
            roleCleared |-> fx.roleCleared \/ roleClearEffect,
            passes |-> fx.passes + 1]
  /\ UNCHANGED <<props, searchTerm, popoverState,
                 hasUserSetDepartmentFilterRef, last, navRun, mountedWith,
                 mounted, fnState>>

\* --------------------------------------------------------- filter events
Event(op) ==
  /\ last' = [op |-> op, id |-> 0, dir |-> "", pre |-> selectedIds,
              fired |-> FALSE, sched |-> FALSE, dis |-> disabled]
  /\ fx' = NoFx
  /\ UNCHANGED <<popoverState, lastAppliedDefaultDepartmentRef,
                 lastEmittedFiltersRef, onFiltersChangeRef, rendered, navRun,
                 mountedWith, mounted, calls, fnState>>

filterControlsVisible == listVisible /\ (allowDepartmentFilter \/ allowRoleFilter)

\* onChange of the department select; "" is the All Departments option.
SelectDepartment(next) ==
  /\ filterControlsVisible /\ ~disabled
  /\ allowDepartmentFilter /\ Len(departments) > 0
  /\ next = "" \/ arrayIncludes(departments, next)
  /\ next # departmentFilter
  /\ hasUserSetDepartmentFilterRef' = TRUE
  /\ departmentFilter' = next
  /\ Event("department")
  /\ UNCHANGED <<props, searchTerm, roleFilter>>

\* onChange of the role select; <<>> is the All Roles option.
SelectRole(next) ==
  /\ filterControlsVisible /\ ~disabled
  /\ allowRoleFilter /\ Len(availableRoles) > 0
  /\ next = <<>> \/ arrayIncludes(availableRoles, next)
  /\ next # roleFilter
  /\ roleFilter' = next
  /\ Event("role")
  /\ UNCHANGED <<props, searchTerm, departmentFilter,
                 hasUserSetDepartmentFilterRef>>

\* onValueChange of the search input.
SetSearchTerm(text) ==
  /\ listVisible /\ ~disabled
  /\ text # searchTerm
  /\ searchTerm' = text
  /\ Event("search")
  /\ UNCHANGED <<props, departmentFilter, roleFilter,
                 hasUserSetDepartmentFilterRef>>

\* Mutant: Clear Filters empties the selection as well.
clearFilters_ClearsSelection ==
  /\ filterControlsVisible /\ ~disabled
  /\ (searchTerm # <<>> \/ departmentFilter # "" \/ roleFilter # <<>>)
  /\ hasUserSetDepartmentFilterRef' = TRUE
  /\ searchTerm' = <<>>
  /\ departmentFilter' = ""
  /\ roleFilter' = <<>>
  /\ selectedIds' = <<>>
  /\ Event("clearFilters")
  /\ UNCHANGED <<variant, maxSelected, disabled, allowClear, defaultDepartment,
                 departments, allowDepartmentFilter, triggerMode, roles,
                 onFiltersChange>>

clearFilters ==
  /\ filterControlsVisible /\ ~disabled
  /\ (searchTerm # <<>> \/ departmentFilter # "" \/ roleFilter # <<>>)
  /\ hasUserSetDepartmentFilterRef' = TRUE
  /\ searchTerm' = <<>>
  /\ departmentFilter' = ""
  /\ roleFilter' = <<>>
  /\ Event("clearFilters")
  /\ UNCHANGED props

\* Values the parent passes as departments.
DepartmentLists == {<<>>, <<"Design">>, mockDepartments}

\* The parent re-renders with another defaultDepartment.
SetDefaultDepartment(next) ==
  /\ next # defaultDepartment
  /\ defaultDepartment' = next
  /\ Event("defaultDepartment")
  /\ UNCHANGED <<variant, maxSelected, disabled, allowClear, selectedIds,
                 departments, allowDepartmentFilter, triggerMode, roles,
                 onFiltersChange, filterState, hasUserSetDepartmentFilterRef>>

\* The parent re-renders with another departments list.
SetDepartments(next) ==
  /\ next # departments
  /\ departments' = next
  /\ Event("departments")
  /\ UNCHANGED <<variant, maxSelected, disabled, allowClear, selectedIds,
                 defaultDepartment, allowDepartmentFilter, triggerMode, roles,
                 onFiltersChange, filterState, hasUserSetDepartmentFilterRef>>

\* Values the parent passes as roles.
RoleLists == {mockRoles, <<Manager>>}

\* The parent re-renders with another roles list.
SetRoles(next) ==
  /\ next # roles
  /\ roles' = next
  /\ Event("roles")
  /\ UNCHANGED <<variant, maxSelected, disabled, allowClear, selectedIds,
                 defaultDepartment, departments, allowDepartmentFilter,
                 triggerMode, onFiltersChange, filterState,
                 hasUserSetDepartmentFilterRef>>

\* Identities of the callback the parent passes as onFiltersChange.
CallbackIds == {1, 2}

\* The parent re-renders with a new (inline) onFiltersChange.
SetOnFiltersChange(next) ==
  /\ next # onFiltersChange
  /\ onFiltersChange' = next
  /\ Event("onFiltersChange")
  /\ UNCHANGED <<variant, maxSelected, disabled, allowClear, selectedIds,
                 defaultDepartment, departments, allowDepartmentFilter,
                 triggerMode, roles, filterState, hasUserSetDepartmentFilterRef>>

\* --------------------------------------------------- filter specification
\* The component as constructed, before the effects of the first render ran.
InitFilters ==
  /\ variant = "multiple"
  /\ maxSelected = 0
  /\ disabled = FALSE
  /\ allowClear = TRUE
  /\ selectedIds \in {<<>>, <<1>>}
  /\ defaultDepartment \in DefaultDepartments
  /\ departments \in DepartmentLists
  /\ allowDepartmentFilter \in BOOLEAN
  /\ triggerMode = "default"
  /\ roles = mockRoles
  /\ onFiltersChange = 1
  /\ open = FALSE
  /\ searchTerm = <<>>
  /\ departmentFilter = defaultDepartment
  /\ roleFilter = <<>>
  /\ userHasClosed = FALSE
  /\ hasUserSetDepartmentFilterRef = FALSE
  /\ lastAppliedDefaultDepartmentRef = defaultDepartment
  /\ lastEmittedFiltersRef = [set |-> FALSE, department |-> "", role |-> <<>>,
                              search |-> <<>>]
  /\ onFiltersChangeRef = 1
  /\ rendered = [DepsOf("", "", FALSE, <<>>, <<>>, <<>>, 1) EXCEPT !.mounted = FALSE]
  /\ timers = <<>>
  /\ mounted = TRUE
  /\ calls = NoCalls
  /\ FnIdle
  /\ focus = "elsewhere"
  /\ last = [op |-> "mount", id |-> 0, dir |-> "", pre |-> selectedIds,
             fired |-> FALSE, sched |-> FALSE, dis |-> disabled]
  /\ navRun = [start |-> selectedIds, n |-> 0]
  /\ fx = NoFx
  /\ mountedWith = Len(selectedIds)

\* Effects are flushed before the next event is handled.
NextFilters ==
  \/ RunEffects
  \/ Quiescent /\ TriggerClick
  \/ Quiescent /\ Dismiss
  \/ Quiescent /\ \E next \in {""} \cup {mockDepartments[i] : i \in 1..Len(mockDepartments)} :
                     SelectDepartment(next)
  \/ Quiescent /\ \E next \in {<<>>} \cup {mockRoles[i] : i \in 1..Len(mockRoles)} :
                     SelectRole(next)
  \/ Quiescent /\ \E text \in SearchTerms : SetSearchTerm(text)
  \/ Quiescent /\ clearFilters
  \/ Quiescent /\ \E next \in DefaultDepartments : SetDefaultDepartment(next)
  \/ Quiescent /\ \E next \in DepartmentLists : SetDepartments(next)
  \/ Quiescent /\ \E next \in CallbackIds : SetOnFiltersChange(next)

SpecFilters == InitFilters /\ [][NextFilters]_vars

\* -------------------------------------------------- popover specification
\* The component is removed from the tree.  Its state is discarded and the
\* ref to the trigger is reset; nothing cancels the outstanding timers.
Unmount ==
  /\ mounted
  /\ mounted' = FALSE
  /\ focus' = "elsewhere"
  /\ last' = [op |-> "unmount", id |-> 0, dir |-> "", pre |-> selectedIds,
              fired |-> FALSE, sched |-> timers # <<>>, dis |-> disabled]
  /\ UNCHANGED <<props, filterState, open, userHasClosed, timers, refs,
                 rendered, navRun, fx, mountedWith, calls, fnState>>

TriggerModes == {"default", "icon"}

\* A single-mode selector, mounted and settled, with either trigger.
InitPopover ==
  /\ variant = "single"
  /\ maxSelected = 0
  /\ disabled = FALSE
  /\ allowClear \in BOOLEAN
  /\ selectedIds \in {<<>>, <<1>>}
  /\ defaultDepartment = ""
  /\ departments = mockDepartments
  /\ allowDepartmentFilter = TRUE
  /\ triggerMode \in TriggerModes
  /\ roles = mockRoles
  /\ onFiltersChange = 1
  /\ open = FALSE
  /\ searchTerm = <<>>
  /\ departmentFilter = ""
  /\ roleFilter = <<>>
  /\ userHasClosed = FALSE
  /\ hasUserSetDepartmentFilterRef = FALSE
  /\ lastAppliedDefaultDepartmentRef = ""
  /\ lastEmittedFiltersRef = [set |-> TRUE, department |-> "", role |-> <<>>,
                              search |-> <<>>]
  /\ onFiltersChangeRef = 1
  /\ rendered = DepsOf("", "", TRUE, mockDepartments, <<>>, <<>>, 1)
  /\ timers = <<>>
  /\ focus = "elsewhere"
  /\ mounted = TRUE
  /\ last = [op |-> "mount", id |-> 0, dir |-> "", pre |-> selectedIds,
             fired |-> FALSE, sched |-> FALSE, dis |-> disabled]
  /\ navRun = [start |-> selectedIds, n |-> 0]
  /\ fx = NoFx
  /\ mountedWith = Len(selectedIds)
  /\ calls = [NoCalls EXCEPT !.last = lastEmittedFiltersRef, !.to = 1]
  /\ FnIdle

\* Events reach the component while it is mounted, once the effects of the
\* previous event have run; timers fire whenever they are due.
NextPopover ==
  \/ mounted /\ RunEffects
  \/ mounted /\ Quiescent /\ \E id \in Ids : RowClick(id)
  \/ mounted /\ Quiescent /\ RemoveSelectionClick
  \/ mounted /\ Quiescent /\ \E dir \in {"up", "down"} : ArrowKey(dir)
  \/ mounted /\ Quiescent /\ TriggerClick
  \/ mounted /\ Quiescent /\ Dismiss
  \/ mounted /\ Quiescent /\ SetDisabled
  \/ mounted /\ Quiescent /\ \E text \in SearchTerms : SetSearchTerm(text)
  \/ mounted /\ Unmount
  \/ CloseTimerFires
  \/ FocusTimerFires

SpecPopover == InitPopover /\ [][NextPopover]_vars

\* The event loop runs every callback that is due.
SpecPopoverLive ==
  /\ InitPopover /\ [][NextPopover]_vars
  /\ WF_vars(CloseTimerFires)
  /\ WF_vars(FocusTimerFires)

\* ------------------------------------------------------ selection claims
IsToggle == last.op \in {"toggle", "toggleKey"}
IsStep == last.op \in {"arrowKey", "arrowButton"}

\* C1: in multiple mode with maxSelected = k >= 1, a selection that held at
\* most k ids at mount never holds more than k ids, whatever toggles follow.
C1_CapNeverExceeded ==
  (variant = "multiple" /\ maxSelected >= 1 /\ mountedWith <= maxSelected)
    => Len(selectedIds) <= maxSelected

\* A toggle has just filled the selection up to the cap.
C1_Witness ==
  /\ variant = "multiple" /\ maxSelected >= 1 /\ mountedWith <= maxSelected
  /\ IsToggle /\ last.fired
  /\ Len(last.pre) = maxSelected - 1
  /\ Len(selectedIds) = maxSelected

\* C2: in multiple mode a toggle of an unselected id while the selection holds
\* maxSelected ids (or more) does not fire selection-changed and leaves the
\* selection exactly as it was.
C2_CapRejectsSilently ==
  (/\ IsToggle /\ variant = "multiple" /\ maxSelected # 0
   /\ ~arrayIncludes(last.pre, last.id)
   /\ Len(last.pre) >= maxSelected)
    => (~last.fired /\ selectedIds = last.pre)

\* An enabled selector at the cap has just been asked to add one more id.
C2_Witness ==
  /\ IsToggle /\ variant = "multiple" /\ maxSelected # 0 /\ ~last.dis
  /\ ~arrayIncludes(last.pre, last.id)
  /\ Len(last.pre) = maxSelected
  /\ selectedIds = last.pre

\* C3: in multiple mode with the selector enabled, a toggle of a selected id
\* removes it, whatever the size of the selection relative to maxSelected.
C3_SelectedAlwaysRemoved ==
  (/\ IsToggle /\ variant = "multiple" /\ ~last.dis
   /\ arrayIncludes(last.pre, last.id))
    => (last.fired /\ selectedIds = Without(last.pre, last.id))

\* C4: in single mode a selection that held at most one id at mount holds at
\* most one id in every reachable state.
C4_SingleAtMostOne ==
  (variant = "single" /\ mountedWith <= 1) => Len(selectedIds) <= 1

\* A keyboard step has just replaced the selected id by another one.
C4_Witness ==
  /\ variant = "single" /\ mountedWith <= 1
  /\ last.op = "arrowKey" /\ last.fired
  /\ Len(last.pre) = 1 /\ Len(selectedIds) = 1 /\ selectedIds # last.pre

\* C5: in single mode with the selector enabled, toggle(id) yields [id] when
\* id is not selected, the empty selection when id is selected and allowClear
\* holds, and neither a change nor a selection-changed call when id is
\* selected and allowClear does not hold.
C5_SingleToggle ==
  (last.op = "toggle" /\ variant = "single" /\ ~last.dis)
    => IF ~arrayIncludes(last.pre, last.id)
       THEN last.fired /\ selectedIds = <<last.id>>
       ELSE IF allowClear
            THEN last.fired /\ selectedIds = <<>>
            ELSE ~last.fired /\ selectedIds = last.pre

\* The selected row was clicked while clearing is not allowed.
C5_Witness ==
  /\ last.op = "toggle" /\ variant = "single" /\ ~last.dis
  /\ arrayIncludes(last.pre, last.id) /\ ~allowClear
  /\ selectedIds = last.pre

\* C6: an operation invoked while disabled holds does not fire
\* selection-changed and leaves the selection as it was.
C6_DisabledFreezes ==
  (last.op # "mount" /\ last.dis) => (~last.fired /\ selectedIds = last.pre)

\* An arrow key reached the trigger of a disabled single-mode selector whose
\* view is not empty.
C6_Witness ==
  /\ last.dis /\ last.op = "arrowKey" /\ variant = "single"
  /\ Len(filteredMembers) > 0
  /\ selectedIds = last.pre

\* C7 as stated: in single mode with a view of N >= 1 rows, N forward steps
\* from any starting selection of at most one id lead back to that selection.
C7_ForwardCycleAnyStart ==
  (/\ variant = "single" /\ Len(filteredMembers) >= 1
   /\ navRun.n = Len(filteredMembers)
   /\ Len(navRun.start) <= 1)
    => selectedIds = navRun.start

\* C7 amended: N forward steps lead back to the starting selection when it is
\* exactly one id and that id is in the view.
C7_ForwardCycleFromViewEntry ==
  (/\ variant = "single" /\ Len(filteredMembers) >= 1
   /\ navRun.n = Len(filteredMembers)
   /\ Len(navRun.start) = 1
   /\ arrayIncludes(filteredMembers, navRun.start[1]))
    => selectedIds = navRun.start

\* A full round of at least two forward steps from a row of the view is done.
C7_Witness ==
  /\ variant = "single" /\ Len(filteredMembers) >= 2
  /\ navRun.n = Len(filteredMembers)
  /\ Len(navRun.start) = 1
  /\ arrayIncludes(filteredMembers, navRun.start[1])
  /\ selectedIds = navRun.start

\* Index in the view (0-based) of the first id of sel, -1 when there is none.
IndexInView(sel) ==
  IF sel # <<>> /\ arrayIncludes(filteredMembers, sel[1])
  THEN (CHOOSE p \in 1..Len(filteredMembers) : filteredMembers[p] = sel[1]) - 1
  ELSE -1

\* C8: a step is a no-op when the view is empty or the mode is multiple;
\* otherwise, with i the index of the first selected id in the view, down
\* selects i+1 (0 after the last index), up selects i-1 (the last index from
\* 0 or -1), and the selection becomes exactly that id.
C8_StepSelectsNeighbour ==
  (IsStep /\ ~last.dis)
    => LET n == Len(filteredMembers)
           i == IndexInView(last.pre)
           j == IF last.dir = "down"
                THEN IF i = n - 1 THEN 0 ELSE i + 1
                ELSE IF i = 0 \/ i = -1 THEN n - 1 ELSE i - 1
       IN IF n = 0 \/ variant = "multiple"
          THEN ~last.fired /\ selectedIds = last.pre
          ELSE last.fired /\ selectedIds = <<filteredMembers[j + 1]>>

\* A backward step with nothing selected has wrapped to the last row.
C8_Witness ==
  /\ IsStep /\ ~last.dis /\ variant = "single"
  /\ last.dir = "up" /\ last.pre = <<>>
  /\ Len(filteredMembers) >= 2
  /\ selectedIds = <<filteredMembers[Len(filteredMembers)]>>

\* --------------------------------------------------------- filter claims
\* The role is empty or one of the roles available for the department.
RoleFits(dept, role) ==
  role = <<>> \/ arrayIncludes(availableRolesFor(dept), role)

\* C9: the criteria handed to filters-changed never pair a department with a
\* non-empty role that is not available for that department.
C9_NotifiedCriteriaConsistent ==
  lastEmittedFiltersRef.set
    => RoleFits(lastEmittedFiltersRef.department, lastEmittedFiltersRef.role)

\* C10: once the effects have run, the role filter is empty or a member of
\* availableRoles for the current department.
C10_RoleFitsWhenSettled ==
  Quiescent => RoleFits(departmentFilter, roleFilter)

\* The user chose another department, the effects cleared the role that the
\* new department does not offer, and everything has settled.
C10_Witness ==
  /\ Quiescent /\ last.op = "department"
  /\ departmentFilter # ""
  /\ fx.roleCleared /\ roleFilter = <<>>

\* C11: after every effect pass the last filters-changed call carries the
\* (department, role, search) triple of that render, and no filters-changed
\* call carries the same triple as the call before it, whatever re-renders
\* and replacements of the callback happen in between.
C11_EveryChangeReportedOnce ==
  /\ rendered.mounted =>
       /\ calls.last.set
       /\ calls.last.department = rendered.departmentFilter
       /\ calls.last.role = rendered.roleFilter
       /\ calls.last.search = rendered.searchTerm
  /\ ~calls.repeated

\* The parent replaced the callback after a search text had been reported;
\* the effects ran and made no further call.
C11_Witness ==
  /\ Quiescent /\ last.op = "onFiltersChange"
  /\ onFiltersChangeRef = 2
  /\ calls.last.set /\ calls.last.search = <<"D">> /\ calls.to = 1
  /\ ~fx.emitted

\* -------------------------------------------------------- popover claims
\* C12: once a single-mode selection has dismissed the popover (userHasClosed
\* is set), the only step that makes the popover visible again is an explicit
\* activation of the trigger, and that step clears userHasClosed; no prop
\* update, effect pass, navigation step, filter change or timer does it.
C12_ReopensOnlyByTrigger ==
  [][(userHasClosed /\ isPopoverOpen') => (TriggerClick /\ ~userHasClosed')]_vars

\* A selection dismissed the popover, its timers have fired, and the popover
\* is on screen again.
C12_Witness ==
  /\ mounted /\ last.op = "toggle" /\ last.sched
  /\ timers = <<>>
  /\ isPopoverOpen

\* A successful single-mode toggle has just scheduled its two callbacks.
JustToggled ==
  /\ last.op = "toggle" /\ last.sched
  /\ timers # <<>> /\ timers[Len(timers)] = scheduleDeferred

\* C13: after every successful single-mode toggle, unless the component is
\* unmounted, the option list eventually is closed and focus eventually is on
\* the trigger, with the default trigger and with the icon trigger.
C13_ClosesAndRefocuses ==
  /\ JustToggled ~> (~mounted \/ ~open)
  /\ JustToggled ~> (~mounted \/ focus = "trigger")

\* C14: the collapse of a toggle fires before the focus restoration of the
\* same toggle: no batch has its collapse outstanding and its refocus done.
C14_CollapseBeforeRefocus ==
  \A b \in 1..Len(timers) :
     (\E t \in timers[b] : t.kind = "close") => (\E t \in timers[b] : t.kind = "focus")

\* The collapse of a toggle has fired and its refocus is still outstanding.
C14_Witness ==
  /\ last.op = "toggle" /\ last.sched
  /\ ~open
  /\ \E b \in 1..Len(timers) : \A t \in timers[b] : t.kind = "focus"

C16_DefaultNeverOverridesUser ==
  hasUserSetDepartmentFilterRef
    => /\ ~fx.defaultApplied
       /\ last.op = "defaultDepartment" => ~fx.departmentReset

\* The user went back to All Departments, the parent then passed a default
\* that is a valid option, and the effects left the filter empty.
C16_Witness ==
  /\ Quiescent /\ hasUserSetDepartmentFilterRef
  /\ last.op = "defaultDepartment"
  /\ allowDepartmentFilter
  /\ defaultDepartment # "" /\ arrayIncludes(departments, defaultDepartment)
  /\ departmentFilter = ""

\* C17: with department options declared, the department filter equals a
\* non-empty defaultDepartment only if that value is one of the options,
\* whether or not the department control is shown.
C17_DefaultAppliedOnlyIfValid ==
  (/\ Quiescent /\ Len(departments) > 0
   /\ departmentFilter # "" /\ departmentFilter = defaultDepartment)
    => arrayIncludes(departments, defaultDepartment)

\* ---------------------------------------------------------- frame claims
FilterOps == {"search", "department", "role", "clearFilters"}

\* C18: a change of the search text, of the department or role filter, or
\* Clear Filters, and the effects that follow it, leave the selection as it
\* was and do not fire selection-changed.
C18_FiltersKeepSelection ==
  last.op \in FilterOps => (~last.fired /\ selectedIds = last.pre)

\* A search text was typed that hides the selected person, who stays selected.
C18_Witness ==
  /\ Quiescent /\ last.op = "search"
  /\ selectedIds # <<>>
  /\ ~arrayIncludes(filteredMembers, selectedIds[1])
  /\ selectedIds = last.pre

\* ------------------------------------------------------- row state claims
\* C19: in an enabled single-mode selector every row other than the selected
\* one is enabled, whatever maxSelected is.
C19_SingleIgnoresCap ==
  (variant = "single" /\ ~disabled)
    => \A id \in Ids : ~arrayIncludes(selectedIds, id) => ~isDisabled(id)

\* The ids of the selection.
SelectedSet == {selectedIds[i] : i \in 1..Len(selectedIds)}

\* C20: in an enabled multiple-mode selector with maxSelected = k >= 1 a row
\* is disabled exactly when its id is not selected and at least k ids are.
C20_DisabledIffUnselectedAtCap ==
  (variant = "multiple" /\ maxSelected >= 1 /\ ~disabled)
    => \A id \in Ids :
         isDisabled(id) <=> (id \notin SelectedSet /\ Cardinality(SelectedSet) >= maxSelected)

\* A deselection has just brought the count below the cap, and a row that
\* was disabled is enabled again.
C20_Witness ==
  /\ variant = "multiple" /\ maxSelected >= 1 /\ ~disabled
  /\ IsToggle /\ last.fired
  /\ Len(last.pre) = maxSelected /\ Len(selectedIds) = maxSelected - 1
  /\ \E id \in Ids : /\ ~arrayIncludes(last.pre, id)
                      /\ ~arrayIncludes(selectedIds, id)
                      /\ ~isDisabled(id)

\* C21: a toggle in multiple mode and a remove change the membership of at
\* most the id passed: the other ids of the selection are the same, in the
\* same relative order, and no other id is added.
C21_OnlyRequestedIdChanges ==
  (\/ IsToggle /\ variant = "multiple"
   \/ last.op = "remove")
    => filterSeq(selectedIds, Ids \ {last.id}) = filterSeq(last.pre, Ids \ {last.id})

\* The middle one of three selected ids was removed; its neighbours stay, in
\* their order.
C21_Witness ==
  /\ last.op = "remove" /\ last.fired
  /\ Len(last.pre) = 3 /\ last.pre[2] = last.id
  /\ selectedIds = <<last.pre[1], last.pre[3]>>

\* ------------------------------------------------- sort stage specification
\* The selector as mounted with its prop defaults and nothing selected; the
\* derivations below are run beside it and leave it alone.
SelectorIdleWith(st, df, rf) ==
  /\ variant = "multiple"
  /\ maxSelected = 0
  /\ disabled = FALSE
  /\ allowClear = TRUE
  /\ selectedIds = <<>>
  /\ defaultDepartment = ""
  /\ departments = mockDepartments
  /\ allowDepartmentFilter = TRUE
  /\ triggerMode = "default"
  /\ roles = mockRoles
  /\ onFiltersChange = 0
  /\ open = FALSE
  /\ searchTerm = st
  /\ departmentFilter = df
  /\ roleFilter = rf
  /\ userHasClosed = FALSE
  /\ hasUserSetDepartmentFilterRef = (df # "")
  /\ lastAppliedDefaultDepartmentRef = ""
  /\ lastEmittedFiltersRef = [set |-> TRUE, department |-> df, role |-> rf,
                              search |-> st]
  /\ onFiltersChangeRef = 0
  /\ rendered = DepsOf("", df, TRUE, mockDepartments, rf, st, 0)
  /\ timers = <<>>
  /\ mounted = TRUE
  /\ calls = NoCalls
  /\ focus = "elsewhere"
  /\ last = [op |-> "mount", id |-> 0, dir |-> "", pre |-> <<>>,
             fired |-> FALSE, sched |-> FALSE, dis |-> FALSE]
  /\ navRun = [start |-> <<>>, n |-> 0]
  /\ fx = NoFx
  /\ mountedWith = 0

SelectorIdle == SelectorIdleWith(<<>>, "", <<>>)

SortModes == {"none", "alphabetical", "management"}

\* An id that no member of a roster carries.
NotInRoster == 9

\* The orders a roster of NumMembers members can arrive in.
RosterOrders ==
  {p \in [1..NumMembers -> 1..NumMembers] :
     \A i, j \in 1..NumMembers : p[i] = p[j] => i = j}

\* Full names by member id; each choice holds two members of the same name.
NameChoices ==
  { << <<"C", "y">>, <<"A", "l">>, <<"B", "o">>, <<"A", "l">>, <<"B", "o">> >>,
    << <<"A", "l">>, <<"B", "o">>, <<"B", "o">>, <<"C", "y">>, <<"A", "l">> >> }

\* directReports of member 1: none, real members, a dangling id, itself.
MyDirectReports == {<<>>, <<2>>, <<2, 3>>, <<3, NotInRoster>>, <<1, 2>>}

\* reportsTo of member 1: nobody, a real member, a dangling id, itself.
MyReportsTo == {0, 2, NotInRoster, 1}

\* directReports of the other members: none, real members, a list naming its
\* owner, a dangling id.
OtherDirectReports == {<<>>, <<1, 3>>, <<1, 2, 3>>, <<3, NotInRoster>>}

CurrentUserIds == {0, 1, NotInRoster}

rosterOf(p, names, mine, boss, theirs) ==
  [i \in 1..NumMembers |->
     [AllMembers[p[i]] EXCEPT
        !.fullName = names[p[i]],
        !.directReports = IF p[i] = 1 THEN mine ELSE theirs,
        !.reportsTo = IF p[i] = 1 THEN boss ELSE 1]]

\* One evaluation of the sortedMembers memo: the list it returns and the
\* roster array as the evaluation leaves it (the sort works on a copy).
sortedMembersMemo(members, mode, me) ==
  [returned |-> sortMembers(members, mode, me),
   teamMembers |-> members]

\* The memo is evaluated on the roster.
SortRoster ==
  /\ sortRun.n = 0
  /\ LET r == sortedMembersMemo(roster, sortMode, currentUserId)
     IN /\ roster' = r.teamMembers
        /\ sortRun' = [given |-> roster, first |-> r.returned,
                       out |-> r.returned, n |-> 1]
  /\ UNCHANGED <<sortMode, currentUserId, filterRun, labelRun, wizard, selectorState>>

\* The list the memo returned is handed to it again as the roster.
SortAgain ==
  /\ sortRun.n = 1
  /\ LET r == sortedMembersMemo(sortRun.first, sortMode, currentUserId)
     IN sortRun' = [sortRun EXCEPT !.out = r.returned, !.n = 2]
  /\ UNCHANGED <<roster, sortMode, currentUserId, filterRun, labelRun, wizard, selectorState>>

InitSort ==
  /\ SelectorIdle
  /\ roster \in {rosterOf(p, names, mine, boss, theirs) :
                   p \in RosterOrders, names \in NameChoices,
                   mine \in MyDirectReports, boss \in MyReportsTo,
                   theirs \in OtherDirectReports}
  /\ sortMode \in SortModes
  /\ currentUserId \in CurrentUserIds
  /\ sortRun = NoSortRun
  /\ filterRun = NoFilterRun
  /\ labelRun = NoLabelRun
  /\ wizard = NewWizard

NextSort ==
  \/ SortRoster
  \/ SortAgain

SpecSort == InitSort /\ [][NextSort]_vars

\* ------------------------------------------------------ sort stage claims
\* The management sort ran for a current user who is in the roster.
ManagementRan ==
  /\ sortRun.n >= 1
  /\ sortMode = "management"
  /\ findMember(sortRun.given, currentUserId) # <<>>

\* The tier of a member in the management order: the current user, a direct
\* subordinate, a sibling, anyone else.
tierOf(m, ctx) ==
  IF m._id = ctx.me THEN 0
  ELSE IF m._id \in ctx.myDirectReportIds THEN 1
  ELSE IF m._id \in ctx.siblingIds THEN 2
  ELSE 3

inTiersByName(members, ctx) ==
  \A i, j \in 1..Len(members) :
    i < j =>
      /\ tierOf(members[i], ctx) <= tierOf(members[j], ctx)
      /\ tierOf(members[i], ctx) = tierOf(members[j], ctx)
           => localeCompare(members[i].fullName, members[j].fullName) <= 0

\* C22: in management mode with a current user who is in the roster, the
\* sorted list shows the current user, then the direct subordinates, then
\* the siblings, then everyone else, each tier in alphabetical order of full
\* name, a member who is both a subordinate and a sibling included.
C22_FourTiersAlphabetical ==
  ManagementRan
    => inTiersByName(sortRun.first, managementContext(sortRun.given, currentUserId))

\* The roster with every relation that names no roster member taken out.
withoutDangling(members) ==
  LET present == {members[i]._id : i \in 1..Len(members)}
  IN [i \in 1..Len(members) |->
        [members[i] EXCEPT
           !.directReports = filterSeq(members[i].directReports, present),
           !.reportsTo = IF members[i].reportsTo \in present
                         THEN members[i].reportsTo ELSE 0]]

\* The roster with the relations of the members in `who` to themselves taken out.
withoutSelfReferences(members, who) ==
  [i \in 1..Len(members) |->
     IF members[i]._id \in who
     THEN [members[i] EXCEPT
             !.directReports = filterSeq(members[i].directReports,
                                         {id \in 1..NotInRoster : id # members[i]._id}),
             !.reportsTo = IF members[i].reportsTo = members[i]._id
                           THEN 0 ELSE members[i].reportsTo]
     ELSE members[i]]

\* The management sort fell back to the input order where it has to.
FallsBackToInputOrder ==
  (/\ sortRun.n >= 1
   /\ sortMode = "management"
   /\ findMember(sortRun.given, currentUserId) = <<>>)
    => sortRun.first = sortRun.given

\* The order is the one of the roster with the relations of `who` to
\* themselves and all dangling relations taken out.
OrderIgnores(who) ==
  (sortRun.n >= 1 /\ sortMode = "management")
    => idsOf(sortRun.first)
         = idsOf(sortMembers(withoutSelfReferences(withoutDangling(sortRun.given), who),
                             sortMode, currentUserId))

isPermutation(a, b) ==
  /\ Len(a) = Len(b)
  /\ \A i \in 1..Len(b) :
       Cardinality({k \in 1..Len(a) : a[k] = b[i]})
         = Cardinality({k \in 1..Len(b) : b[k] = b[i]})

\* C24: in each sort mode the sorted list is a permutation of the roster,
\* the roster handed in is left as it was, and sorting the sorted list again
\* under the same mode and current user gives the same order.
C24_SortIdempotentPermutation ==
  sortRun.n >= 1
    => /\ roster = sortRun.given
       /\ isPermutation(sortRun.first, sortRun.given)
       /\ sortRun.n = 2 => sortRun.out = sortRun.first

\* A roster was sorted twice, the first sort moved somebody and left two
\* members of the same name in their input order.
C24_Witness ==
  /\ sortRun.n = 2
  /\ sortMode # "none"
  /\ sortRun.first # sortRun.given
  /\ \E i, j \in 1..Len(sortRun.first) :
       /\ i < j
       /\ sortRun.first[i].fullName = sortRun.first[j].fullName
       /\ sortRun.first[i]._id > sortRun.first[j]._id

\* ----------------------------------------------- filter stage specification
\* Rosters of NumMembers members of the whole staff in any order; the staff
\* holds a member with no department and no role.
FilterRosters ==
  {[i \in 1..NumMembers |-> AllMembers[p[i]]] :
     p \in {q \in [1..NumMembers -> 1..Len(AllMembers)] :
              \A i, j \in 1..NumMembers : q[i] = q[j] => i = j}}

FilterSearchTerms == SearchTerms \cup {<<"E">>}

\* The orders in which the three criteria can be applied one after another.
StageOrders ==
  {o \in [1..3 -> {"search", "department", "role"}] :
     \A i, j \in 1..3 : o[i] = o[j] => i = j}

\* One criterion of the filteredMembers predicate applied on its own.
stage(name, members) ==
  IF name = "search"
    THEN SelectSeq(members, LAMBDA member : matchesSearch(member, searchTerm))
  ELSE IF name = "department"
    THEN SelectSeq(members, LAMBDA member : matchesDepartment(member, departmentFilter))
  ELSE SelectSeq(members, LAMBDA member : matchesRole(member, roleFilter))

\* The sorted roster is filtered by the memo, and by the three criteria one
\* after another in the given order.
FilterRoster(order) ==
  /\ filterRun.n = 0
  /\ LET sorted == sortMembers(roster, sortMode, currentUserId)
     IN filterRun' = [order |-> order,
                      staged |-> idsOf(stage(order[3], stage(order[2],
                                         stage(order[1], sorted)))),
                      view |-> idsOf(filterMembers(sorted, searchTerm,
                                                   departmentFilter, roleFilter)),
                      n |-> 1]
  /\ UNCHANGED <<sortState, labelRun, wizard, selectorState>>

InitFilterStage ==
  /\ \E st \in FilterSearchTerms, df \in {""} \cup {mockDepartments[i] : i \in 1..Len(mockDepartments)},
        rf \in {<<>>} \cup {mockRoles[i] : i \in 1..Len(mockRoles)} :
       SelectorIdleWith(st, df, rf)
  /\ roster \in FilterRosters
  /\ sortMode \in {"none", "alphabetical"}
  /\ currentUserId = 0
  /\ sortRun = NoSortRun
  /\ filterRun = NoFilterRun
  /\ labelRun = NoLabelRun
  /\ wizard = NewWizard

NextFilterStage == \E order \in StageOrders : FilterRoster(order)

SpecFilterStage == InitFilterStage /\ [][NextFilterStage]_vars

\* C25: the filtered view is the sorted roster filtered by search text, by
\* department and by role one after another in any order; a member is kept
\* exactly when the three criteria hold, an empty criterion holds for every
\* member (one with no department or role included), and the members kept
\* stay in their sorted order.
C25_FilterIsComposition ==
  filterRun.n = 1 =>
    LET sorted == sortMembers(roster, sortMode, currentUserId)
        viewIds == {filterRun.view[i] : i \in 1..Len(filterRun.view)}
    IN /\ filterRun.staged = filterRun.view
       /\ \A i \in 1..Len(sorted) :
            /\ sorted[i]._id \in viewIds
                 <=> (/\ matchesSearch(sorted[i], searchTerm)
                      /\ matchesDepartment(sorted[i], departmentFilter)
                      /\ matchesRole(sorted[i], roleFilter))
            /\ searchTerm = <<>> => matchesSearch(sorted[i], searchTerm)
            /\ departmentFilter = "" => matchesDepartment(sorted[i], departmentFilter)
            /\ roleFilter = <<>> => matchesRole(sorted[i], roleFilter)
       /\ filterRun.view = filterSeq(idsOf(sorted), viewIds)

\* A roster with the member of no department and no role was filtered by a
\* search text alone, role first: that member is kept and another is dropped.
C25_Witness ==
  /\ filterRun.n = 1
  /\ filterRun.order[1] = "role"
  /\ searchTerm # <<>> /\ departmentFilter = "" /\ roleFilter = <<>>
  /\ arrayIncludes(filterRun.view, 5)
  /\ Len(filterRun.view) < Len(roster)
  /\ sortMode = "alphabetical"

\* ---------------------------------------------- display name specification
\* formatDisplayName: an absent or empty part of the name is <<>>.
formatDisplayName(name, compact) ==
  IF ~compact THEN name.fullName
  ELSE IF name.givenName = <<>> THEN name.fullName
  ELSE IF name.familyName # <<>>
    THEN name.givenName \o <<" ", name.familyName[1], ".">>
    ELSE name.givenName

\* useIsSmUp: the server snapshot (true) until the client snapshot is read,
\* then what the media query (min-width: 640px) reports.
useIsSmUp(r) == IF r.hydrated THEN r.matches ELSE TRUE

\* Variant: a narrow viewport always asks for the compact form.
compactFor_ViewportFirst(r) ==
  IF ~useIsSmUp(r) THEN TRUE ELSE r.compactName = "true"

\* The compact argument of the trigger label.
compactFor(r) ==
  IF r.compactName # "undefined" THEN r.compactName = "true" ELSE ~useIsSmUp(r)

\* The trigger label of a single selection, rendered from the inputs in r.
rendersLabel(r) == [r EXCEPT !.label = formatDisplayName(r.name, compactFor(r))]

DisplayNames ==
  [givenName : {<<>>, <<"A", "n", "a">>, <<"B", "o">>},
   familyName : {<<>>, <<"L", "i">>, <<"O", "z">>},
   fullName : {<<"A", "n", "a", " ", "L", "i">>, <<"D", "r", " ", "O", "z">>}]

CompactNames == {"undefined", "true", "false"}

\* The client snapshot replaces the server snapshot after hydration.
Hydrate ==
  /\ ~labelRun.hydrated
  /\ labelRun' = rendersLabel([labelRun EXCEPT !.hydrated = TRUE])
  /\ UNCHANGED <<sortState, filterRun, wizard, selectorState>>

\* The viewport crosses the breakpoint: the media query reports a change.
MediaChange ==
  /\ labelRun' = rendersLabel([labelRun EXCEPT !.matches = ~labelRun.matches])
  /\ UNCHANGED <<sortState, filterRun, wizard, selectorState>>

\* The parent passes another compactName.
SetCompactName(c) ==
  /\ c # labelRun.compactName
  /\ labelRun' = rendersLabel([labelRun EXCEPT !.compactName = c])
  /\ UNCHANGED <<sortState, filterRun, wizard, selectorState>>

InitLabel ==
  /\ SelectorIdle
  /\ roster = <<>>
  /\ sortMode = "none"
  /\ currentUserId = 0
  /\ sortRun = NoSortRun
  /\ filterRun = NoFilterRun
  /\ wizard = NewWizard
  /\ \E name \in DisplayNames, c \in CompactNames, m \in BOOLEAN :
       labelRun = rendersLabel([NoLabelRun EXCEPT !.name = name, !.compactName = c,
                                                  !.matches = m])

NextLabel ==
  \/ Hydrate
  \/ MediaChange
  \/ \E c \in CompactNames : SetCompactName(c)

SpecLabel == InitLabel /\ [][NextLabel]_vars

\* The given name with the initial of the family name, the given name alone
\* when there is no family name, the full name when there is no given name.
abbreviated(name) ==
  IF name.givenName = <<>> THEN name.fullName
  ELSE IF name.familyName = <<>> THEN name.givenName
  ELSE name.givenName \o <<" ", Head(name.familyName), ".">>

\* C26: with compactName given the label follows it whatever the viewport
\* (false: the full name, true: the abbreviated form); without it the label
\* is abbreviated exactly on a narrow viewport, and until the viewport has
\* been read it counts as wide.
C26_OverrideBeforeViewport ==
  labelRun.label =
    IF labelRun.compactName = "true" THEN abbreviated(labelRun.name)
    ELSE IF labelRun.compactName = "false" THEN labelRun.name.fullName
    ELSE IF labelRun.hydrated /\ ~labelRun.matches THEN abbreviated(labelRun.name)
    ELSE labelRun.name.fullName

\* compactName is false, the viewport was read and is narrow, and the full
\* name on show differs from the abbreviated form.
C26_Witness ==
  /\ labelRun.compactName = "false"
  /\ labelRun.hydrated /\ ~labelRun.matches
  /\ labelRun.label = labelRun.name.fullName
  /\ abbreviated(labelRun.name) # labelRun.name.fullName

\* ------------------------------------------------------------ frame claims
\* The step is a toggle in multiple mode, a remove, a clearAll or a
\* navigation step (every handler run records itself in last).
SelectionOnlyStep ==
  /\ last' # last
  /\ \/ last'.op \in {"toggle", "toggleKey"} /\ variant = "multiple"
     \/ last'.op \in {"remove", "clearAll", "arrowKey", "arrowButton"}

\* The selection a navigation step leads to, from the view and the selection
\* alone.
StepTarget(dir) ==
  LET n == Len(filteredMembers)
      i == IndexInView(selectedIds)
      j == IF dir = "down"
           THEN IF i = n - 1 THEN 0 ELSE i + 1
           ELSE IF i = 0 \/ i = -1 THEN n - 1 ELSE i - 1
  IN IF n = 0 \/ variant = "multiple" \/ disabled THEN selectedIds
     ELSE <<filteredMembers[j + 1]>>

\* C27: a toggle in multiple mode, a remove, a clearAll and a navigation
\* step leave open, userHasClosed and the three filter criteria as they were,
\* and a navigation step leads to the same selection whether the popover is
\* open or closed.
C27_SelectionStepsKeepPopoverAndFilters ==
  [][SelectionOnlyStep
       => /\ UNCHANGED <<open, userHasClosed, searchTerm, departmentFilter, roleFilter>>
          /\ last'.op \in {"arrowKey", "arrowButton"}
               => selectedIds' = StepTarget(last'.dir)]_vars

\* The selection was cleared from the open list of a selector with a search
\* text, and the list is still open.
C27_Witness ==
  /\ last.op = "clearAll" /\ last.fired
  /\ last.pre # <<>> /\ selectedIds = <<>>
  /\ open /\ ~userHasClosed
  /\ searchTerm # <<>>

\* C28: a popover on screen leaves the screen only by a closing event (a
\* selection, escape or an outside interaction, a click on the trigger); the
\* deferred collapse of an earlier selection never takes down a popover that
\* the user opened again before it fired.
C28_ReopenedStaysVisible ==
  [][(isPopoverOpen /\ ~isPopoverOpen')
       => (Dismiss \/ TriggerClick \/ userHasClosed')]_vars

\* ------------------------------------------------- effects specification
\* The filter specification with the roles input changing as well.
NextEffects ==
  \/ NextFilters
  \/ Quiescent /\ \E next \in RoleLists : SetRoles(next)

SpecEffects == InitFilters /\ [][NextEffects]_vars

PROJECT_TYPES == {"new", "enhancement", "audit", "maintenance"}

TEAM_ROLES == {"frontend", "backend", "devops", "designer", "pm"}

\* duration.min of each timeline, in months.
TIMELINES == [urgent |-> 1, standard |-> 3, extended |-> 6]

COMPLEXITY_FACTORS == {"stack", "integration", "security", "performance"}

\* Variant: Next is enabled on every step.
isStepValid_Always(w) == TRUE

isStepValid(w) ==
  IF w.step = 1 THEN w.projectType # ""
  ELSE IF w.step = 2 THEN Len(w.selectedRoles) > 0
  ELSE IF w.step = 3 THEN w.timeline # ""
  ELSE w.step = 4

\* handleNext: one step forward, or on step 4 the value for onSelect when the
\* timeline is one of TIMELINES.
handleNext(w) ==
  IF w.step < 4 THEN [w EXCEPT !.step = w.step + 1, !.did = "next", !.reported = 0]
  ELSE [w EXCEPT !.did = "complete",
                 !.reported = IF w.timeline \in DOMAIN TIMELINES
                              THEN Len(w.selectedRoles) * TIMELINES[w.timeline]
                              ELSE 0]

handleBack(w) ==
  IF w.step > 1 THEN [w EXCEPT !.step = w.step - 1, !.did = "back", !.reported = 0]
  ELSE [w EXCEPT !.did = "back", !.reported = 0]

WizardStep(next) ==
  /\ wizard' = next
  /\ UNCHANGED <<sortState, filterRun, labelRun, selectorState>>

\* The radio group of step 1.
SetProjectType(t) ==
  /\ wizard.step = 1
  /\ t # wizard.projectType
  /\ WizardStep([wizard EXCEPT !.projectType = t, !.did = "choose", !.reported = 0])

\* A checkbox of step 2: onCheckedChange(!checked).
ToggleRole(r) ==
  /\ wizard.step = 2
  /\ WizardStep([wizard EXCEPT
                   !.selectedRoles = IF arrayIncludes(wizard.selectedRoles, r)
                                     THEN filterSeq(wizard.selectedRoles, TEAM_ROLES \ {r})
                                     ELSE Append(wizard.selectedRoles, r),
                   !.did = "choose", !.reported = 0])

\* The radio group of step 3.
SetTimeline(t) ==
  /\ wizard.step = 3
  /\ t # wizard.timeline
  /\ WizardStep([wizard EXCEPT !.timeline = t, !.did = "choose", !.reported = 0])

\* A checkbox of step 4.
ToggleComplexityFactor(f) ==
  /\ wizard.step = 4
  /\ WizardStep([wizard EXCEPT
                   !.complexityFactors = IF f \in wizard.complexityFactors
                                         THEN wizard.complexityFactors \ {f}
                                         ELSE wizard.complexityFactors \cup {f},
                   !.did = "choose", !.reported = 0])

\* The Next / Complete button, disabled unless the step is valid.
NextClick ==
  /\ isStepValid(wizard)
  /\ WizardStep(handleNext(wizard))

\* The Back button, disabled on step 1.
BackClick ==
  /\ wizard.step # 1
  /\ WizardStep(handleBack(wizard))

InitWizard ==
  /\ SelectorIdle
  /\ roster = <<>>
  /\ sortMode = "none"
  /\ currentUserId = 0
  /\ sortRun = NoSortRun
  /\ filterRun = NoFilterRun
  /\ labelRun = NoLabelRun
  /\ wizard = NewWizard

NextWizard ==
  \/ \E t \in PROJECT_TYPES : SetProjectType(t)
  \/ \E r \in TEAM_ROLES : ToggleRole(r)
  \/ \E t \in DOMAIN TIMELINES : SetTimeline(t)
  \/ \E f \in COMPLEXITY_FACTORS : ToggleComplexityFactor(f)
  \/ NextClick
  \/ BackClick

SpecWizard == InitWizard /\ [][NextWizard]_vars

\* C30: the step is one of 1..4; from step 2 on a project type is chosen,
\* from step 3 on at least one role is selected, on step 4 a timeline is
\* chosen; and a click on Complete hands onSelect a positive value, the number
\* of selected roles times the minimum duration of the chosen timeline.
C30_WizardStepsGuarded ==
  /\ wizard.step \in 1..4
  /\ wizard.step >= 2 => wizard.projectType \in PROJECT_TYPES
  /\ wizard.step >= 3 => Len(wizard.selectedRoles) >= 1
  /\ wizard.step = 4 => wizard.timeline \in DOMAIN TIMELINES
  /\ wizard.did = "complete"
       => /\ wizard.reported > 0
          /\ wizard.reported = Len(wizard.selectedRoles) * TIMELINES[wizard.timeline]

\* The wizard was completed with two roles, the extended timeline and a
\* complexity factor: onSelect received 12.
C30_Witness ==
  /\ wizard.did = "complete"
  /\ Len(wizard.selectedRoles) = 2
  /\ wizard.timeline = "extended"
  /\ wizard.reported = 12
  /\ wizard.complexityFactors # {}
====
